---- MODULE Spec2Model ----
(***************************************************************************)
(* Relevance filtering of the coach-ml data pipeline.                      *)
(*                                                                         *)
(*   FactChecker            src/fact_checker.py    (specification Spec)    *)
(*   StretchingClassifier   src/test_stretching.py (SpecClassifier)        *)
(*                                                                         *)
(* Texts are sequences of characters.  An ASCII character is the string    *)
(* holding it; a Hangul syllable is written "k_" followed by its           *)
(* romanisation (initial, vowel, "_" final), e.g. "k_chi_ng"; a line feed  *)
(* is "<nl>".  A confidence is a whole number of hundredths (95 is 0.95). *)
(***************************************************************************)
EXTENDS Integers, Sequences, FiniteSets, TLC

VARIABLES
    max_retries,            \* FactChecker.max_retries
    batch_size,             \* FactChecker.batch_size
    total_requests,         \* FactChecker.total_requests
    successful_requests,    \* FactChecker.successful_requests
    failed_requests,        \* FactChecker.failed_requests
    rate_limited_requests,  \* FactChecker.rate_limited_requests
    pc,                     \* position in check_stretching_relevance_with_retry
    attempt,                \* the loop variable of line 81
    text,                   \* the argument of the call in progress
    ret,                    \* what the last call returned
    observed,               \* the responses the call in progress has received
    reply,                  \* the JSON body of the 2xx response, when there was one
    before,                 \* the counters when the call started
    trace,                  \* the sleeps and requests of the call in progress, in order
    paced,                  \* the pacing sleep just finished, in tenths of a second
    request,                \* request_data of the last request of the call in progress
    pb_pc,                  \* position in process_batch
    texts,                  \* the argument of process_batch
    i,                      \* the loop variable of line 140
    batch,                  \* texts[i:i + batch_size]
    k,                      \* position of the loop of line 143 in batch
    batch_results,          \* line 142
    results,                \* line 139
    verdicts,               \* kind and first component of what each call of process_batch returned
    pb_before,              \* total_requests when process_batch was entered
    c_text,                 \* the argument of the last classify_text call
    c_response,             \* the response that call received
    c_has_keyword,          \* has_keyword, line 45
    c_out,                  \* the dict classify_text returned
    c_request,              \* the json argument of that call's requests.post
    c_trace,                \* the sleeps and requests of that call, in order
    max_items,              \* StretchingDataCrawler.max_items
    cr_pc,                  \* position in crawl_all_muscles
    cr_i,                   \* position of the running loop in its list of muscles
    all_results,            \* crawl_all_muscles, line 569
    collected_data,         \* StretchingDataCrawler.collected_data
    structured_data,        \* the dataset crawl_all_muscles has written
    m_pc,                   \* position in process_muscle_data
    muscles,                \* line 181, after the cut of line 183
    exercises_per_muscle,   \* the argument of that name, 0 for None
    mi,                     \* position of the loop of line 187 in muscles
    exercises,              \* line 188, after the cut of line 192
    ei,                     \* position of the loop of line 196 in exercises
    filtered_exercises,     \* line 194
    filtered_data,          \* filtered_data["muscles"], in insertion order
    temp_output_file,       \* what the file of that name holds
    output_file,            \* what the file of that name holds
    checks                  \* exercise and first component of each check that returned

fc_vars == <<max_retries, batch_size, total_requests, successful_requests,
             failed_requests, rate_limited_requests, pc, attempt, text, ret,
             observed, reply, before, trace, paced, request>>
pb_vars == <<pb_pc, texts, i, batch, k, batch_results, results, verdicts,
             pb_before>>
c_vars == <<c_text, c_response, c_has_keyword, c_out, c_request, c_trace>>
cr_vars == <<max_items, cr_pc, cr_i, all_results, collected_data,
             structured_data>>
m_vars == <<m_pc, muscles, exercises_per_muscle, mi, exercises, ei,
            filtered_exercises, filtered_data, temp_output_file, output_file,
            checks>>
vars == <<fc_vars, pb_vars, c_vars, cr_vars, m_vars>>

----------------------------------------------------------------------------
(* Bounds of the model. *)

MaxRetriesBound == 2
MaxBatchSize == 2
MaxTexts == 2
MaxRequests == 3
MaxItems == 2
MaxFound == 2

----------------------------------------------------------------------------
(* Python values. *)

\* dict.get(key, default)
Get(d, key, default) == IF key \in DOMAIN d THEN d[key] ELSE default

\* texts[lo:hi] of a Python list, 0-based and clipped at the end
Slice(s, lo, hi) ==
    LET top == IF hi < Len(s) THEN hi ELSE Len(s)
    IN  IF lo >= top THEN << >> ELSE SubSeq(s, lo + 1, top)

\* The empty dict, as a function.
EmptyDict == [x \in {} |-> 0]

\* The JSON objects a 2xx response can carry: each of "supported" and
\* "confidence" is present or absent.
Confidences == {80, 95, 99}
JsonBodies ==
    { [x \in {} |-> 0] }
    \cup { [x \in {"supported"} |-> s] : s \in BOOLEAN }
    \cup { [x \in {"confidence"} |-> c] : c \in Confidences }
    \cup { [x \in {"supported", "confidence"} |->
              IF x = "supported" THEN s ELSE c] :
           s \in BOOLEAN, c \in Confidences }

\* str(e) of the requests.exceptions.RequestException an attempt can raise:
\* raise_for_status() on a 4xx/5xx status other than 429, or the transport.
ErrorMessages == {"500 Server Error", "Read timed out"}

\* What one requests.post can come back with, the 2xx bodies among bs.
ResponsesWith(bs) ==
    { [kind |-> "2xx", body |-> b, msg |-> ""] : b \in bs }
    \cup { [kind |-> "429", body |-> EmptyDict, msg |-> ""] }
    \cup { [kind |-> "error", body |-> EmptyDict, msg |-> m] : m \in ErrorMessages }

\* Return values of check_stretching_relevance_with_retry.
Tuple3(a, b, c) ==
    [kind |-> "tuple", is_relevant |-> a, confidence |-> b, error |-> c]
None == [kind |-> "None", is_relevant |-> FALSE, confidence |-> 0, error |-> ""]
NoCall == [kind |-> "no call", is_relevant |-> FALSE, confidence |-> 0, error |-> ""]

----------------------------------------------------------------------------
(* Texts. *)

\* Sample texts.
\* test_stretching.py line 169: keywords, and a context pattern
T_static ==
    <<"k_jeo_ng", "k_jeo_k", " ", "k_seu", "k_teu", "k_re", "k_chi_ng",
      "k_eu_n", " ", "k_geu_n", "k_yu_k", "k_eu_l", " ", "k_cheo_n",
      "k_cheo_n", "k_hi", " ", "k_neu_l", "k_ryeo", " ", "1", "5", "-", "3",
      "0", "k_cho", " ", "k_do_ng", "k_a_n", " ", "k_yu", "k_ji", "k_ha",
      "k_neu_n", " ", "k_ba_ng", "k_beo_p", "k_i_p", "k_ni", "k_da", "." >>
\* line 177: a keyword, no context pattern
T_protein ==
    <<"k_da_n", "k_bae_k", "k_ji_l", " ", "k_bo", "k_chu_ng", "k_je",
      "k_neu_n", " ", "k_geu_n", "k_yu_k", " ", "k_hoe", "k_bo_k", "k_e", " ",
      "k_do", "k_u_m", "k_i", " ", "k_doe_p", "k_ni", "k_da", "." >>
\* line 178: no keyword, no pattern
T_hiit ==
    <<"k_go", "k_ga_ng", "k_do", " ", "k_i_n", "k_teo", "k_beo_l", " ",
      "k_teu", "k_re", "k_i", "k_ni_ng", "k_eu_n", " ", "k_hyo", "k_gwa",
      "k_jeo_k", "k_i_n", " ", "k_yu", "k_sa_n", "k_so", " ", "k_u_n",
      "k_do_ng", "k_i_p", "k_ni", "k_da", "." >>
\* only an upper-case keyword of the list
T_pnf ==
    <<"P", "N", "F", " ", "k_gi", "k_beo_p" >>
\* only the other upper-case keyword
T_rom ==
    <<"R", "O", "M", " ", "k_cheu_k", "k_jeo_ng" >>
\* a lower-case keyword written with a capital
T_Stretching ==
    <<"D", "a", "i", "l", "y", " ", "S", "t", "r", "e", "t", "c", "h", "i",
      "n", "g" >>
\* holds "rom" inside a word
T_from ==
    <<"a", "w", "a", "y", " ", "f", "r", "o", "m", " ", "h", "o", "m", "e" >>
\* no keyword, a general context pattern
T_posture ==
    <<"P", "o", "s", "t", "u", "r", "e", " ", "C", "o", "r", "r", "e", "c",
      "t", "i", "o", "n" >>
\* no keyword, a pattern of both sets
T_rehab ==
    <<"r", "e", "h", "a", "b", "i", "l", "i", "t", "a", "t", "i", "o", "n",
      " ", "p", "r", "o", "g", "r", "a", "m" >>
\* a keyword, and a line feed inside the only pattern candidate
T_newline ==
    <<"s", "t", "r", "e", "t", "c", "h", "i", "n", "g", "<nl>", "m", "e", "t",
      "h", "o", "d", " ", "k_ba_ng", "k_beo_p" >>
\* keyword and context pattern, in capitals
T_muscle ==
    <<"M", "u", "s", "c", "l", "e", " ", "F", "l", "e", "x", "i", "b", "i",
      "l", "i", "t", "y" >>
\* the empty text
T_empty ==
    << >>

SampleTexts ==
    {T_static, T_protein, T_hiit, T_pnf, T_rom, T_Stretching,
     T_from, T_posture, T_rehab, T_newline, T_muscle, T_empty}

----------------------------------------------------------------------------
(* FactChecker.check_stretching_relevance_with_retry, src/fact_checker.py  *)
(* lines 77-135.  One action per blocking step: the pacing sleep, the      *)
(* request with the handling of its response, the backoff sleep.           *)

\* The texts given to the checker, which only forwards them.
FcTexts == {T_Stretching, T_rom}

\* The bodies the checker is answered with: both fields, one of them, none.
FcBodies == { b \in JsonBodies : Get(b, "confidence", 95) = 95 }

FcResponses == ResponsesWith(FcBodies)

\* ParseReply with True as the default of a missing "supported".
ParseReply_DefaultsTrue(result) ==
    Tuple3(Get(result, "supported", TRUE), Get(result, "confidence", 0), "")

\* Lines 123-128: the tuple built from the JSON body.
ParseReply(result) ==
    Tuple3(Get(result, "supported", FALSE), Get(result, "confidence", 0), "")

\* LastAttempt taking the first attempt for the last.
LastAttempt_First(a) == a = 0

\* Line 132: the test that ends the retries after a RequestException.
LastAttempt(a) == a = max_retries - 1

\* HasNextAttempt with one value more in the range.
HasNextAttempt_OneMore(a) == a + 1 < max_retries + 1

\* Line 81: range(self.max_retries) has a next value after a.
HasNextAttempt(a) == a + 1 < max_retries

\* BackoffWait without the attempt index.
BackoffWait_Flat(a) == 5

\* Line 113: the wait after a 429 at attempt a, in seconds.
BackoffWait(a) == (a + 1) * 5

\* Line 27: rate_limit_delay = 2.0, in tenths of a second.
RateLimitDelay == 20

\* Line 84: random.uniform(0.5, 1.5), in tenths of a second: the two ends
\* of the interval.
Jitters == {5, 15}

\* One entry of trace; secs is the length of a backoff sleep.
Event(kind, secs) == [kind |-> kind, secs |-> secs]

\* Lines 45-60: the text get_stretching_context() returns, as one token.
StretchingContext == <<"<get_stretching_context()>">>

\* Line 94: the line that introduces the text inside the document.
AnalysisLabel ==
    <<"k_bu_n", "k_seo_k", "k_ha_l", " ", "k_ja", "k_ryo", ":", "<nl>">>

\* Line 97: the claim, the same sentence in every request, as one token.
FixedClaim == <<"<claim of line 97>">>

\* RequestData with the context as document and the text as claim.
RequestData_TextAsClaim(t) == [document |-> StretchingContext, claim |-> t]

\* Lines 89-98: request_data; the f-string of lines 90-96 puts the context,
\* the label and the text into the document.
RequestData(t) ==
    [document |-> <<"<nl>">> \o StretchingContext \o <<"<nl>", "<nl>">>
                    \o AnalysisLabel \o t \o <<"<nl>">>,
     claim |-> FixedClaim]

\* No request_data exists.
NoRequest == [document |-> << >>, claim |-> << >>]

\* Lines 77-81: entry, up to the first iteration of the loop.
Begin(t) ==
    /\ total_requests' = total_requests + 1
    /\ attempt' = 0
    /\ text' = t
    /\ ret' = NoCall
    /\ observed' = << >>
    /\ reply' = EmptyDict
    /\ before' = [total |-> total_requests, successful |-> successful_requests,
                  failed |-> failed_requests,
                  rate_limited |-> rate_limited_requests]
    /\ trace' = << >>
    /\ paced' = 0
    /\ request' = NoRequest
    /\ pc' = "sleep"
    /\ UNCHANGED <<max_retries, batch_size, successful_requests,
                   failed_requests, rate_limited_requests>>

\* process_batch is not running and its locals are gone.
PbIdle ==
    /\ pb_pc = "idle"
    /\ texts = << >>
    /\ i = 0
    /\ batch = << >>
    /\ k = 0
    /\ batch_results = << >>
    /\ results = << >>
    /\ verdicts = << >>
    /\ pb_before = 0

\* The locals of an earlier process_batch call are dropped.
PbReset ==
    /\ pb_pc' = "idle"
    /\ texts' = << >>
    /\ i' = 0
    /\ batch' = << >>
    /\ k' = 0
    /\ batch_results' = << >>
    /\ results' = << >>
    /\ verdicts' = << >>
    /\ pb_before' = 0

\* A caller other than process_batch (the test script, process_muscle_data)
\* calls the method.
CallCheck ==
    /\ pc = "idle"
    /\ pb_pc # "running"
    /\ total_requests < MaxRequests
    /\ \E t \in FcTexts : Begin(t)
    /\ PbReset
    /\ UNCHANGED <<c_vars, cr_vars, m_vars>>

\* Lines 84-85: time.sleep(rate_limit_delay + uniform(0.5, 1.5)).
PacingSleep ==
    /\ pc = "sleep"
    /\ \E jitter \in Jitters : paced' = RateLimitDelay + jitter
    /\ trace' = Append(trace, Event("pacing", 0))
    /\ pc' = "post"
    /\ UNCHANGED <<max_retries, batch_size, total_requests, successful_requests,
                   failed_requests, rate_limited_requests, attempt, text, ret,
                   observed, reply, before, request>>
    /\ UNCHANGED <<pb_vars, c_vars, cr_vars, m_vars>>

\* On429 with the 429 counted as a failed request.
On429_CountsFailure ==
    /\ failed_requests' = failed_requests + 1
    /\ pc' = "backoff"
    /\ UNCHANGED <<successful_requests, rate_limited_requests, attempt, ret, reply>>

\* Lines 111-116: a 429; the backoff sleep is the next step.
On429 ==
    /\ rate_limited_requests' = rate_limited_requests + 1
    /\ pc' = "backoff"
    /\ UNCHANGED <<successful_requests, failed_requests, attempt, ret, reply>>

\* On2xx with the answer counted on both sides.
On2xx_CountsBoth(body) ==
    /\ successful_requests' = successful_requests + 1
    /\ failed_requests' = failed_requests + 1
    /\ reply' = body
    /\ ret' = ParseReply(body)
    /\ pc' = "idle"
    /\ UNCHANGED <<rate_limited_requests, attempt>>

\* Lines 118-128: a status raise_for_status accepts, and its JSON body.
On2xx(body) ==
    /\ successful_requests' = successful_requests + 1
    /\ reply' = body
    /\ ret' = ParseReply(body)
    /\ pc' = "idle"
    /\ UNCHANGED <<failed_requests, rate_limited_requests, attempt>>

\* OnRequestException with failed_requests counted at every failed attempt.
OnRequestException_CountsEachAttempt(msg) ==
    IF LastAttempt(attempt)
    THEN /\ failed_requests' = failed_requests + 1
         /\ ret' = Tuple3(FALSE, 0, msg)
         /\ pc' = "idle"
         /\ UNCHANGED <<successful_requests, rate_limited_requests, attempt, reply>>
    ELSE /\ failed_requests' = failed_requests + 1
         /\ attempt' = attempt + 1 /\ pc' = "sleep" /\ ret' = ret
         /\ UNCHANGED <<successful_requests, rate_limited_requests, reply>>

\* OnRequestException with the retry sent without the pacing sleep.
OnRequestException_RetriesAtOnce(msg) ==
    IF LastAttempt(attempt)
    THEN /\ failed_requests' = failed_requests + 1
         /\ ret' = Tuple3(FALSE, 0, msg)
         /\ pc' = "idle"
         /\ UNCHANGED <<successful_requests, rate_limited_requests, attempt, reply>>
    ELSE /\ attempt' = attempt + 1 /\ pc' = "post" /\ ret' = ret
         /\ UNCHANGED <<successful_requests, failed_requests,
                        rate_limited_requests, reply>>

\* OnRequestException with the backoff sleep of the 429 branch before a retry.
OnRequestException_BacksOff(msg) ==
    IF LastAttempt(attempt)
    THEN /\ failed_requests' = failed_requests + 1
         /\ ret' = Tuple3(FALSE, 0, msg)
         /\ pc' = "idle"
         /\ UNCHANGED <<successful_requests, rate_limited_requests, attempt, reply>>
    ELSE /\ pc' = "backoff"
         /\ UNCHANGED <<successful_requests, failed_requests,
                        rate_limited_requests, attempt, ret, reply>>

\* Lines 130-135: a RequestException with str(e) = msg.
OnRequestException(msg) ==
    IF LastAttempt(attempt)
    THEN /\ failed_requests' = failed_requests + 1
         /\ ret' = Tuple3(FALSE, 0, msg)
         /\ pc' = "idle"
         /\ UNCHANGED <<successful_requests, rate_limited_requests, attempt, reply>>
    ELSE /\ IF HasNextAttempt(attempt)
            THEN attempt' = attempt + 1 /\ pc' = "sleep" /\ ret' = ret
            ELSE attempt' = attempt /\ pc' = "idle" /\ ret' = None
         /\ UNCHANGED <<successful_requests, failed_requests,
                        rate_limited_requests, reply>>

\* Lines 100-135: requests.post and what the code does with the response.
Post ==
    /\ pc = "post"
    /\ \E r \in FcResponses :
          /\ observed' = Append(observed,
                                IF r.kind = "error" THEN r.msg ELSE r.kind)
          /\ CASE r.kind = "429" -> On429
               [] r.kind = "2xx" -> On2xx(r.body)
               [] r.kind = "error" -> OnRequestException(r.msg)
    /\ trace' = Append(trace, Event("post", 0))
    /\ paced' = 0
    /\ request' = RequestData(text)
    /\ UNCHANGED <<max_retries, batch_size, total_requests, text, before>>
    /\ UNCHANGED <<pb_vars, c_vars, cr_vars, m_vars>>

\* Lines 115-116 and 81: time.sleep(wait_time); continue.  After the last
\* value of range(max_retries) the loop ends and the method ends without a
\* return statement.
BackoffSleep ==
    /\ pc = "backoff"
    /\ IF HasNextAttempt(attempt)
       THEN attempt' = attempt + 1 /\ pc' = "sleep" /\ ret' = ret
       ELSE attempt' = attempt /\ pc' = "idle" /\ ret' = None
    /\ trace' = Append(trace, Event("backoff", BackoffWait(attempt)))
    /\ UNCHANGED <<max_retries, batch_size, total_requests, successful_requests,
                   failed_requests, rate_limited_requests, text, observed,
                   reply, before, paced, request>>
    /\ UNCHANGED <<pb_vars, c_vars, cr_vars, m_vars>>

----------------------------------------------------------------------------
(* FactChecker.process_batch, src/fact_checker.py lines 137-147.  The calls *)
(* it makes to check_stretching_relevance_with_retry run as the steps above. *)

\* BatchAt taking every batch from the start of the list.
BatchAt_FromStart(ts, lo) == Slice(ts, 0, batch_size)

\* Line 141: batch = texts[i:i + self.batch_size]
BatchAt(ts, lo) == Slice(ts, lo, lo + batch_size)

\* AppendResult with a verdict taken from the confidence.
AppendResult_ByConfidence(rs, r) == Append(rs, r.confidence >= 95)

\* Line 145: batch_results.append(is_relevant)
AppendResult(rs, r) == Append(rs, r.is_relevant)

\* Line 146: results.extend(batch_results)
Extend(rs, brs) == rs \o brs

\* Lines 139-144: entry, up to the first call; an empty list is returned at once.
ProcessBatch ==
    /\ pc = "idle"
    /\ pb_pc # "running"
    /\ \E ts \in UNION { [1..n -> FcTexts] : n \in 0..MaxTexts } :
          /\ total_requests + Len(ts) <= MaxRequests
          /\ texts' = ts
          /\ results' = << >>
          /\ batch_results' = << >>
          /\ verdicts' = << >>
          /\ pb_before' = total_requests
          /\ i' = 0
          /\ IF Len(ts) = 0
             THEN /\ pb_pc' = "returned"
                  /\ batch' = << >>
                  /\ k' = 0
                  /\ UNCHANGED fc_vars
             ELSE /\ pb_pc' = "running"
                  /\ batch' = BatchAt(ts, 0)
                  /\ k' = 1
                  /\ Begin(BatchAt(ts, 0)[1])
    /\ UNCHANGED <<c_vars, cr_vars, m_vars>>

\* Lines 144-147, after a call has come back: the tuple is unpacked (a
\* TypeError when the call returned None, which nothing catches), the
\* verdict appended, and the loops advance to the next call or to the return.
BatchStep ==
    /\ pb_pc = "running"
    /\ pc = "idle"
    /\ verdicts' = Append(verdicts, [kind |-> ret.kind, is_relevant |-> ret.is_relevant])
    /\ IF ret.kind # "tuple"
       THEN /\ pb_pc' = "raised"
            /\ UNCHANGED <<i, batch, k, batch_results, results>>
            /\ UNCHANGED fc_vars
       ELSE IF k < Len(batch)
       THEN /\ batch_results' = AppendResult(batch_results, ret)
            /\ k' = k + 1
            /\ Begin(batch[k + 1])
            /\ UNCHANGED <<pb_pc, i, batch, results>>
       ELSE IF i + batch_size < Len(texts)
       THEN /\ results' = Extend(results, AppendResult(batch_results, ret))
            /\ i' = i + batch_size
            /\ batch' = BatchAt(texts, i + batch_size)
            /\ batch_results' = << >>
            /\ k' = 1
            /\ Begin(BatchAt(texts, i + batch_size)[1])
            /\ UNCHANGED pb_pc
       ELSE /\ results' = Extend(results, AppendResult(batch_results, ret))
            /\ batch_results' = AppendResult(batch_results, ret)
            /\ pb_pc' = "returned"
            /\ UNCHANGED <<i, batch, k>>
            /\ UNCHANGED fc_vars
    /\ UNCHANGED <<texts, pb_before, c_vars, cr_vars, m_vars>>

----------------------------------------------------------------------------
(* StretchingClassifier, src/test_stretching.py lines 21-161. *)

\* Lines 35-42: stretching_keywords, in the order of the list.
stretching_keywords == <<
    <<"k_seu", "k_teu", "k_re", "k_chi_ng" >>,
    <<"s", "t", "r", "e", "t", "c", "h", "i", "n", "g" >>,
    <<"k_si_n", "k_ja_ng" >>,
    <<"k_yu", "k_yeo_n", "k_seo_ng" >>,
    <<"k_ga", "k_do_ng", "k_seo_ng" >>,
    <<"f", "l", "e", "x", "i", "b", "i", "l", "i", "t", "y" >>,
    <<"m", "o", "b", "i", "l", "i", "t", "y" >>,
    <<"k_geu_n", "k_yu_k" >>,
    <<"k_gwa_n", "k_jeo_l" >>,
    <<"k_ja", "k_se" >>,
    <<"k_si_n", "k_jeo_n" >>,
    <<"k_i", "k_wa_n" >>,
    <<"k_si_n", "k_ja_ng", "k_seo_ng" >>,
    <<"R", "O", "M" >>,
    <<"k_ga", "k_do_ng", "k_beo_m", "k_wi" >>,
    <<"k_gwa_n", "k_jeo_l", "k_ga", "k_do_ng", "k_beo_m", "k_wi" >>,
    <<"k_geu_n", "k_ma_k" >>,
    <<"f", "a", "s", "c", "i", "a" >>,
    <<"k_geu_n", "k_yu_k", "k_si_n", "k_ja_ng" >>,
    <<"m", "u", "s", "c", "l", "e", " ", "s", "t", "r", "e", "t", "c", "h",
      "i", "n", "g" >>,
    <<"k_gwa_n", "k_jeo_l", "k_ga", "k_do_ng" >>,
    <<"j", "o", "i", "n", "t", " ", "m", "o", "b", "i", "l", "i", "t", "y" >>,
    <<"k_yu", "k_yeo_n", "k_seo_ng", "k_u_n", "k_do_ng" >>,
    <<"f", "l", "e", "x", "i", "b", "i", "l", "i", "t", "y", " ", "e", "x",
      "e", "r", "c", "i", "s", "e" >>,
    <<"k_do_ng", "k_jeo_k", "k_seu", "k_teu", "k_re", "k_chi_ng" >>,
    <<"k_jeo_ng", "k_jeo_k", "k_seu", "k_teu", "k_re", "k_chi_ng" >>,
    <<"P", "N", "F" >>,
    <<"p", "r", "o", "p", "r", "i", "o", "c", "e", "p", "t", "i", "v", "e" >>,
    <<"k_si_n", "k_gyeo_ng", "k_geu_n" >>,
    <<"n", "e", "u", "r", "o", "m", "u", "s", "c", "u", "l", "a", "r" >>
    >>

\* Lines 112-119: each pattern is (first alternatives).*(second alternatives).
positive_patterns == <<
    [first |-> {
        <<"k_seu", "k_teu", "k_re", "k_chi_ng" >>,
        <<"s", "t", "r", "e", "t", "c", "h", "i", "n", "g" >> },
     second |-> {
        <<"k_hyo", "k_gwa" >>,
        <<"k_yeo_ng", "k_hya_ng" >>,
        <<"k_ba_ng", "k_beo_p" >>,
        <<"k_peu", "k_ro", "k_geu", "k_rae_m" >> }],
    [first |-> {
        <<"k_geu_n", "k_yu_k" >>,
        <<"m", "u", "s", "c", "l", "e" >> },
     second |-> {
        <<"k_si_n", "k_ja_ng" >>,
        <<"k_neu_l", "k_ri", "k_gi" >>,
        <<"f", "l", "e", "x", "i", "b", "i", "l", "i", "t", "y" >> }],
    [first |-> {
        <<"k_u_n", "k_do_ng" >>,
        <<"e", "x", "e", "r", "c", "i", "s", "e" >> },
     second |-> {
        <<"k_seu", "k_teu", "k_re", "k_chi_ng" >>,
        <<"s", "t", "r", "e", "t", "c", "h", "i", "n", "g" >> }],
    [first |-> {
        <<"k_yu", "k_yeo_n", "k_seo_ng" >>,
        <<"f", "l", "e", "x", "i", "b", "i", "l", "i", "t", "y" >> },
     second |-> {
        <<"k_hya_ng", "k_sa_ng" >>,
        <<"k_gae", "k_seo_n" >>,
        <<"k_jeu_ng", "k_ga" >> }],
    [first |-> {
        <<"m", "o", "b", "i", "l", "i", "t", "y" >>,
        <<"k_ga", "k_do_ng", "k_seo_ng" >> },
     second |-> {
        <<"e", "x", "e", "r", "c", "i", "s", "e" >>,
        <<"k_u_n", "k_do_ng" >> }],
    [first |-> {
        <<"r", "e", "h", "a", "b", "i", "l", "i", "t", "a", "t", "i", "o", "n" >>,
        <<"k_jae", "k_hwa_l" >> },
     second |-> {
        <<"p", "r", "o", "g", "r", "a", "m" >>,
        <<"k_peu", "k_ro", "k_geu", "k_rae_m" >> }]
    >>

\* related_terms without the two patterns positive_patterns also has.
related_terms_Disjoint == <<
    [first |-> {
        <<"f", "l", "e", "x", "i", "b", "i", "l", "i", "t", "y" >>,
        <<"k_yu", "k_yeo_n", "k_seo_ng" >> },
     second |-> {
        <<"i", "m", "p", "r", "o", "v", "e", "m", "e", "n", "t" >>,
        <<"k_hya_ng", "k_sa_ng" >>,
        <<"k_jeu_ng", "k_ga" >> }],
    [first |-> {
        <<"m", "u", "s", "c", "l", "e" >>,
        <<"k_geu_n", "k_yu_k" >> },
     second |-> {
        <<"e", "l", "o", "n", "g", "a", "t", "i", "o", "n" >>,
        <<"k_si_n", "k_ja_ng" >>,
        <<"k_neu_l", "k_ri", "k_gi" >> }],
    [first |-> {
        <<"j", "o", "i", "n", "t" >>,
        <<"k_gwa_n", "k_jeo_l" >> },
     second |-> {
        <<"r", "a", "n", "g", "e" >>,
        <<"k_ga", "k_do_ng" >>,
        <<"k_u_m", "k_ji_k", "k_i_m" >> }],
    [first |-> {
        <<"p", "o", "s", "t", "u", "r", "e" >>,
        <<"k_ja", "k_se" >> },
     second |-> {
        <<"c", "o", "r", "r", "e", "c", "t", "i", "o", "n" >>,
        <<"k_gyo", "k_jeo_ng" >>,
        <<"k_gae", "k_seo_n" >> }]
    >>

\* Lines 124-131.
related_terms == <<
    [first |-> {
        <<"f", "l", "e", "x", "i", "b", "i", "l", "i", "t", "y" >>,
        <<"k_yu", "k_yeo_n", "k_seo_ng" >> },
     second |-> {
        <<"i", "m", "p", "r", "o", "v", "e", "m", "e", "n", "t" >>,
        <<"k_hya_ng", "k_sa_ng" >>,
        <<"k_jeu_ng", "k_ga" >> }],
    [first |-> {
        <<"m", "o", "b", "i", "l", "i", "t", "y" >>,
        <<"k_ga", "k_do_ng", "k_seo_ng" >> },
     second |-> {
        <<"e", "x", "e", "r", "c", "i", "s", "e" >>,
        <<"k_u_n", "k_do_ng" >> }],
    [first |-> {
        <<"r", "e", "h", "a", "b", "i", "l", "i", "t", "a", "t", "i", "o", "n" >>,
        <<"k_jae", "k_hwa_l" >> },
     second |-> {
        <<"p", "r", "o", "g", "r", "a", "m" >>,
        <<"k_peu", "k_ro", "k_geu", "k_rae_m" >> }],
    [first |-> {
        <<"m", "u", "s", "c", "l", "e" >>,
        <<"k_geu_n", "k_yu_k" >> },
     second |-> {
        <<"e", "l", "o", "n", "g", "a", "t", "i", "o", "n" >>,
        <<"k_si_n", "k_ja_ng" >>,
        <<"k_neu_l", "k_ri", "k_gi" >> }],
    [first |-> {
        <<"j", "o", "i", "n", "t" >>,
        <<"k_gwa_n", "k_jeo_l" >> },
     second |-> {
        <<"r", "a", "n", "g", "e" >>,
        <<"k_ga", "k_do_ng" >>,
        <<"k_u_m", "k_ji_k", "k_i_m" >> }],
    [first |-> {
        <<"p", "o", "s", "t", "u", "r", "e" >>,
        <<"k_ja", "k_se" >> },
     second |-> {
        <<"c", "o", "r", "r", "e", "c", "t", "i", "o", "n" >>,
        <<"k_gyo", "k_jeo_ng" >>,
        <<"k_gae", "k_seo_n" >> }]
    >>

\* str.lower() of one character: only A-Z have a lower-case form here.
LowerChar(c) ==
    CASE c = "A" -> "a" [] c = "B" -> "b" [] c = "C" -> "c" [] c = "D" -> "d"
      [] c = "E" -> "e" [] c = "F" -> "f" [] c = "G" -> "g" [] c = "H" -> "h"
      [] c = "I" -> "i" [] c = "J" -> "j" [] c = "K" -> "k" [] c = "L" -> "l"
      [] c = "M" -> "m" [] c = "N" -> "n" [] c = "O" -> "o" [] c = "P" -> "p"
      [] c = "Q" -> "q" [] c = "R" -> "r" [] c = "S" -> "s" [] c = "T" -> "t"
      [] c = "U" -> "u" [] c = "V" -> "v" [] c = "W" -> "w" [] c = "X" -> "x"
      [] c = "Y" -> "y" [] c = "Z" -> "z" [] OTHER -> c

\* str.lower()
Lower(s) == [j \in 1..Len(s) |-> LowerChar(s[j])]

\* needle occurs in hay at 0-based offset p
OccursAt(hay, needle, p) ==
    /\ p + Len(needle) <= Len(hay)
    /\ \A j \in 1..Len(needle) : hay[p + j] = needle[j]

\* Python's  needle in hay
Contains(hay, needle) ==
    \E p \in 0..(Len(hay) - Len(needle)) : OccursAt(hay, needle, p)

\* re.search(pattern, t, re.I) for a pattern (a|b).*(c|d): an alternative of
\* the first group, then any characters but a line feed, then an
\* alternative of the second group, letters compared without case.
Search(pattern, t) ==
    LET lt == Lower(t)
    IN  \E a \in pattern.first :
           \E p \in 0..(Len(t) - Len(a)) :
              /\ OccursAt(lt, Lower(a), p)
              /\ \E b \in pattern.second :
                    \E q \in (p + Len(a))..(Len(t) - Len(b)) :
                       /\ OccursAt(lt, Lower(b), q)
                       /\ \A j \in (p + Len(a) + 1)..q : t[j] # "<nl>"

\* Line 45: has_keyword
HasKeyword(t) ==
    LET lt == Lower(t)
    IN  \E n \in 1..Len(stretching_keywords) :
           Contains(lt, stretching_keywords[n])

\* Line 47: found_keywords
FoundKeywords(t) ==
    LET lt == Lower(t)
        Keep(kw) == Contains(lt, kw)
    IN  SelectSeq(stretching_keywords, Keep)

\* Lines 110-120: _check_keyword_context
CheckKeywordContext(t) ==
    \E n \in 1..Len(positive_patterns) : Search(positive_patterns[n], t)

\* Lines 122-132: _analyze_context
AnalyzeContext(t) ==
    \E n \in 1..Len(related_terms) : Search(related_terms[n], t)

\* The three functions of the text on the sample texts, computed once.
HasKeywordOf == [t \in SampleTexts |-> HasKeyword(t)]
FoundKeywordsOf == [t \in SampleTexts |-> FoundKeywords(t)]
CheckKeywordContextOf == [t \in SampleTexts |-> CheckKeywordContext(t)]
AnalyzeContextOf == [t \in SampleTexts |-> AnalyzeContext(t)]

\* Lines 70 and 80: the cut-off 0.95, in hundredths.
Threshold == 95

\* Decide with the cut-off itself counted as below it.
Decide_ThresholdExclusive(t, has_keyword, is_supported, confidence) ==
    IF has_keyword
    THEN IF confidence <= Threshold
         THEN [is_stretching_related |-> TRUE, classification |-> "keyword_based"]
         ELSE [is_stretching_related |-> CheckKeywordContextOf[t],
               classification |-> "high_confidence_with_context"]
    ELSE IF confidence > Threshold
         THEN [is_stretching_related |-> is_supported,
               classification |-> "api_based"]
         ELSE [is_stretching_related |-> AnalyzeContextOf[t],
               classification |-> "context_based"]

\* Decide with the verifier's flag taken in the keyword_based cell.
Decide_KeywordFollowsApi(t, has_keyword, is_supported, confidence) ==
    IF has_keyword
    THEN IF confidence < Threshold
         THEN [is_stretching_related |-> is_supported,
               classification |-> "keyword_based"]
         ELSE [is_stretching_related |-> CheckKeywordContextOf[t],
               classification |-> "high_confidence_with_context"]
    ELSE IF confidence >= Threshold
         THEN [is_stretching_related |-> is_supported,
               classification |-> "api_based"]
         ELSE [is_stretching_related |-> AnalyzeContextOf[t],
               classification |-> "context_based"]

\* Lines 69-88: the verdict and the label.
Decide(t, has_keyword, is_supported, confidence) ==
    IF has_keyword
    THEN IF confidence < Threshold
         THEN [is_stretching_related |-> TRUE, classification |-> "keyword_based"]
         ELSE [is_stretching_related |-> CheckKeywordContextOf[t],
               classification |-> "high_confidence_with_context"]
    ELSE IF confidence >= Threshold
         THEN [is_stretching_related |-> is_supported,
               classification |-> "api_based"]
         ELSE [is_stretching_related |-> AnalyzeContextOf[t],
               classification |-> "context_based"]

\* Lines 90-98: the dict returned after a 2xx response with JSON object body.
Outcome(t, body) ==
    LET has_keyword == HasKeywordOf[t]
        is_supported == Get(body, "supported", FALSE)
        confidence == Get(body, "confidence", 0)
        d == Decide(t, has_keyword, is_supported, confidence)
    IN  [text |-> t,
         is_stretching_related |-> d.is_stretching_related,
         confidence |-> confidence,
         classification |-> d.classification,
         api_supported |-> is_supported,
         has_keyword |-> has_keyword,
         found_keywords |-> IF has_keyword THEN FoundKeywordsOf[t] ELSE << >>]

\* ErrorOutcome with the verifier's side of a success outcome.
ErrorOutcome_AsContext(t, msg) ==
    [text |-> t, is_stretching_related |-> AnalyzeContextOf[t], confidence |-> 0,
     classification |-> "context_based", error |-> msg]

\* Lines 100-108: the dict returned when anything in the try block raised.
ErrorOutcome(t, msg) ==
    [text |-> t, is_stretching_related |-> FALSE, confidence |-> 0,
     classification |-> "error", error |-> msg]

\* What the classifier's one requests.post can come back with: raise_for_status
\* raises on a 429 as on any other 4xx/5xx status, response.json() on a body
\* that is not JSON.
ClassifierResponses ==
    { r \in ResponsesWith(JsonBodies) : r.kind # "429" }
    \cup { [kind |-> "429", body |-> EmptyDict, msg |-> "429 Client Error"] }
    \cup { [kind |-> "error", body |-> EmptyDict, msg |-> m] : m \in ErrorMessages }
    \cup { [kind |-> "not json", body |-> EmptyDict, msg |-> "Expecting value"] }

\* Lines 134-161: the text _get_context() returns, as one token.
ClassifierContext == <<"<_get_context()>">>

\* Lines 53-56: the json argument of requests.post.
ClassifierRequest(t) == [document |-> ClassifierContext, claim |-> t]

\* ClassifierSteps with the retry of the FactChecker on a 429.
ClassifierSteps_Retrying(r) ==
    IF r.kind = "429"
    THEN <<Event("pacing", 0), Event("post", 0), Event("backoff", 5),
           Event("pacing", 0), Event("post", 0)>>
    ELSE <<Event("pacing", 0), Event("post", 0)>>

\* Lines 50-60: the sleeps and requests of one call that is answered r: one
\* requests.post, outside any loop, and no time.sleep.
ClassifierSteps(r) == <<Event("post", 0)>>

\* Lines 31-108: classify_text, called from test_classifier (line 184).
ClassifyText ==
    /\ \E t \in SampleTexts, r \in ClassifierResponses :
          /\ c_text' = t
          /\ c_response' = r
          /\ c_has_keyword' = HasKeywordOf[t]
          /\ c_request' = ClassifierRequest(t)
          /\ c_trace' = ClassifierSteps(r)
          /\ c_out' = IF r.kind = "2xx"
                      THEN Outcome(t, r.body)
                      ELSE ErrorOutcome(t, r.msg)
    /\ UNCHANGED <<fc_vars, pb_vars, cr_vars, m_vars>>

----------------------------------------------------------------------------
(* StretchingDataCrawler.crawl_all_muscles, src/scripts/muscle_data_crawler.py *)
(* lines 564-632.  One action per iteration of a loop over the muscles, one  *)
(* for the writing of the dataset.                                           *)

\* Lines 103-175: the keys of FRONT_MUSCLES, in the order of the dict.
FRONT_MUSCLES == <<
    <<"k_dae", "k_hyu_ng", "k_geu_n" >>,
    <<"k_hyu_ng", "k_swae", "k_yu", "k_do_l", "k_geu_n" >>,
    <<"k_bo_k", "k_ji_k", "k_geu_n" >>,
    <<"k_oe", "k_bo_k", "k_sa", "k_geu_n" >>,
    <<"k_nae", "k_jeo_n", "k_geu_n" >>,
    <<"k_dae", "k_toe", "k_ji_k", "k_geu_n" >>,
    <<"k_oe", "k_cheu_k", "k_gwa_ng", "k_geu_n" >>,
    <<"k_nae", "k_cheu_k", "k_gwa_ng", "k_geu_n" >>,
    <<"k_bo_ng", "k_go_ng", "k_geu_n" >>,
    <<"k_jeo_n", "k_gyeo_ng", "k_go_l", "k_geu_n" >>
    >>

\* Lines 177-255: the keys of BACK_MUSCLES, in the order of the dict.
BACK_MUSCLES == <<
    <<"k_dae", "k_du_n", "k_geu_n" >>,
    <<"k_gwa_ng", "k_bae", "k_geu_n" >>,
    <<"k_da_n", "k_du" >>,
    <<"k_ja_ng", "k_du" >>,
    <<"k_bi", "k_bo_k", "k_geu_n" >>,
    <<"k_ba_n", "k_geo_n", "k_ya_ng", "k_geu_n" >>,
    <<"k_sa_m", "k_ga_k", "k_geu_n" >>,
    <<"k_sa_m", "k_du", "k_geu_n" >>,
    <<"k_jeo_n", "k_wa_n", "k_geu_n" >>,
    <<"k_seu_ng", "k_mo", "k_geu_n" >>,
    <<"k_nae", "k_jeo_n", "k_geu_n" >>
    >>

\* Line 258: the keys of ALL_MUSCLES = {**FRONT_MUSCLES, **BACK_MUSCLES}.
ALL_MUSCLES ==
    { FRONT_MUSCLES[n] : n \in 1..Len(FRONT_MUSCLES) }
    \cup { BACK_MUSCLES[n] : n \in 1..Len(BACK_MUSCLES) }

\* Line 586: the muscle that is in both dicts.
Adductor == <<"k_nae", "k_jeo_n", "k_geu_n">>

\* Lines 305-328: what crawl_muscle returns when its searches find n items
\* for the muscle.
CrawlMuscle(muscle_name, n) == [j \in 1..n |-> [muscle |-> muscle_name, item |-> j]]

\* Lines 580 and 596: all_results[:self.max_items]
Truncate(items, n) == Slice(items, 0, n)

\* Lines 579 and 595: if self.max_items and len(all_results) >= self.max_items
LimitReached(items) == max_items # 0 /\ Len(items) >= max_items

\* Lines 602-615: structured_data; the muscles with a non-empty list.
Structure(items, collected) ==
    [total_items |-> Len(items),
     muscles |-> [m \in { x \in ALL_MUSCLES : collected[x] # << >> } |->
                     collected[m]]]

\* Line 267, and no dataset written.
CrawlerIdle ==
    /\ cr_pc = "front"
    /\ cr_i = 1
    /\ all_results = << >>
    /\ collected_data = [m \in ALL_MUSCLES |-> << >>]
    /\ structured_data = [total_items |-> 0, muscles |-> EmptyDict]

\* Lines 573-581, and 584 when the loop ends: one iteration of the loop over
\* FRONT_MUSCLES, the searches finding n items.
CrawlFront ==
    /\ cr_pc = "front"
    /\ \E n \in 0..MaxFound :
          LET muscle_name == FRONT_MUSCLES[cr_i]
              found == CrawlMuscle(muscle_name, n)
              extended == all_results \o found
          IN  /\ collected_data' = [collected_data EXCEPT ![muscle_name] = found]
              /\ IF LimitReached(extended)
                 THEN /\ all_results' = Truncate(extended, max_items)
                      /\ cr_pc' = "write"
                      /\ cr_i' = cr_i
                 ELSE /\ all_results' = extended
                      /\ IF cr_i < Len(FRONT_MUSCLES)
                         THEN cr_pc' = "front" /\ cr_i' = cr_i + 1
                         ELSE cr_pc' = "back" /\ cr_i' = 1
    /\ UNCHANGED <<max_items, structured_data>>
    /\ UNCHANGED <<fc_vars, pb_vars, c_vars, m_vars>>

\* Lines 586-597: one iteration of the loop over BACK_MUSCLES.
CrawlBack ==
    /\ cr_pc = "back"
    /\ LET muscle_name == BACK_MUSCLES[cr_i]
           skipped == muscle_name = Adductor /\ collected_data[Adductor] # << >>
       IN  \E n \in 0..MaxFound :
              LET found == CrawlMuscle(muscle_name, n)
                  extended == all_results \o found
              IN  IF skipped
                  THEN /\ UNCHANGED <<all_results, collected_data>>
                       /\ IF cr_i < Len(BACK_MUSCLES)
                          THEN cr_pc' = "back" /\ cr_i' = cr_i + 1
                          ELSE cr_pc' = "write" /\ cr_i' = cr_i
                  ELSE /\ collected_data' =
                             [collected_data EXCEPT ![muscle_name] = found]
                       /\ IF LimitReached(extended)
                          THEN /\ all_results' = Truncate(extended, max_items)
                               /\ cr_pc' = "write"
                               /\ cr_i' = cr_i
                          ELSE /\ all_results' = extended
                               /\ IF cr_i < Len(BACK_MUSCLES)
                                  THEN cr_pc' = "back" /\ cr_i' = cr_i + 1
                                  ELSE cr_pc' = "write" /\ cr_i' = cr_i
    /\ UNCHANGED <<max_items, structured_data>>
    /\ UNCHANGED <<fc_vars, pb_vars, c_vars, m_vars>>

\* Lines 599-618: the dataset is built and written.
WriteDataset ==
    /\ cr_pc = "write"
    /\ structured_data' = Structure(all_results, collected_data)
    /\ cr_pc' = "done"
    /\ UNCHANGED <<max_items, cr_i, all_results, collected_data>>
    /\ UNCHANGED <<fc_vars, pb_vars, c_vars, m_vars>>

----------------------------------------------------------------------------
(* process_muscle_data, src/fact_checker.py lines 160-241.  The checks it    *)
(* makes run as the steps of check_stretching_relevance_with_retry above.    *)

\* Line 167: FactChecker(max_retries=3, batch_size=3, rate_limit_delay=2.0)
MuscleMaxRetries == 3
MuscleBatchSize == 3

\* Exercises of the input file: dicts with a title, an abstract and, under
\* protocol, steps; each of them may be missing.
\* src/test_fact_checker.py lines 60-66, shortened
Ex_pec_stretch ==
    [title |-> <<"k_dae", "k_hyu_ng", "k_geu_n", " ", "k_seu", "k_teu", "k_re", "k_chi_ng" >>,
     abstract |-> <<"k_byeo_k", "k_e", " ", "k_pa_l", "k_eu_l" >>,
     steps |-> <<<<"1", "5", "-", "3", "0", "k_cho" >>>>]
\* lines 67-73, shortened, without protocol
Ex_pec_strength ==
    [title |-> <<"k_dae", "k_hyu_ng", "k_geu_n", " ", "k_geu_n", "k_ryeo_k" >>,
     abstract |-> <<"k_be_n", "k_chi", "k_peu", "k_re", "k_seu" >>]
\* lines 83-89, the title alone
Ex_lat_stretch ==
    [title |-> <<"k_gwa_ng", "k_bae", "k_geu_n", " ", "k_seu", "k_teu", "k_re", "k_chi_ng" >>]

\* Names of muscles of the input file (lines 53 and 76).
PectoralisMajor == <<"k_dae", "k_hyu_ng", "k_geu_n">>
LatissimusDorsi == <<"k_gwa_ng", "k_bae", "k_geu_n">>

\* data["muscles"] of input files, in the order of the file.
MuscleFiles ==
    { << [name |-> PectoralisMajor, info |-> "pectoralis major",
          exercises |-> <<Ex_pec_stretch, Ex_pec_strength>>],
         [name |-> LatissimusDorsi, info |-> "latissimus dorsi",
          exercises |-> <<Ex_lat_stretch>>] >>,
      << [name |-> PectoralisMajor, info |-> "pectoralis major",
          exercises |-> << >>],
         [name |-> LatissimusDorsi, info |-> "latissimus dorsi",
          exercises |-> <<Ex_lat_stretch, Ex_pec_stretch>>] >>,
      << >> }

\* The values of limit_muscles and exercises_per_muscle: None, written 0
\* (lines 182 and 191 test the truth of the argument), or 1.
Limits == {0, 1}

\* Lines 183 and 192: the cut of a list when the limit is given.
Limited(list, limit) == IF limit # 0 THEN Slice(list, 0, limit) ELSE list

\* " ".join(steps)
RECURSIVE Join(_)
Join(steps) ==
    IF steps = << >> THEN << >>
    ELSE IF Len(steps) = 1 THEN steps[1]
    ELSE steps[1] \o <<" ">> \o Join(Tail(steps))

\* Lines 198-201: exercise_text
ExerciseText(exercise) ==
    Get(exercise, "title", << >>) \o <<".", " ">>
       \o Get(exercise, "abstract", << >>)
       \o (IF "steps" \in DOMAIN exercise
           THEN <<" ">> \o Join(exercise.steps)
           ELSE << >>)

\* Lines 206-210: the exercise is appended when is_relevant is true.
Keep(kept, exercise, is_relevant) ==
    IF is_relevant THEN Append(kept, exercise) ELSE kept

\* Lines 213-217: the muscle is entered when it has an exercise left.
Enter(data, muscle, kept) ==
    IF kept # << >>
    THEN Append(data, [name |-> muscle.name, info |-> muscle.info,
                       exercises |-> kept])
    ELSE data

\* A file that has not been written.
NoFile == [written |-> FALSE, muscles |-> << >>]

\* json.dump(filtered_data, f)
Dump(data) == [written |-> TRUE, muscles |-> data]

\* process_muscle_data has not been called.
MuscleIdle ==
    /\ m_pc = "idle"
    /\ muscles = << >>
    /\ exercises_per_muscle = 0
    /\ mi = 0
    /\ exercises = << >>
    /\ ei = 0
    /\ filtered_exercises = << >>
    /\ filtered_data = << >>
    /\ temp_output_file = NoFile
    /\ output_file = NoFile
    /\ checks = << >>

\* Lines 160-185: entry, up to the loop over the muscles.
ProcessMuscleData ==
    /\ m_pc = "idle"
    /\ \E data \in MuscleFiles, limit_muscles \in Limits, per_muscle \in Limits :
          /\ muscles' = Limited(data, limit_muscles)
          /\ exercises_per_muscle' = per_muscle
    /\ m_pc' = "muscle"
    /\ mi' = 1
    /\ UNCHANGED <<exercises, ei, filtered_exercises, filtered_data,
                   temp_output_file, output_file, checks>>
    /\ UNCHANGED <<fc_vars, pb_vars, c_vars, cr_vars>>

\* Lines 187-196, and 212-228: a muscle is taken up, with its first check;
\* a muscle without exercises is finished at once; after the last muscle
\* the output file is written.
MuscleStep ==
    /\ m_pc = "muscle"
    /\ pc = "idle"
    /\ IF mi > Len(muscles)
       THEN /\ output_file' = Dump(filtered_data)
            /\ m_pc' = "done"
            /\ UNCHANGED <<mi, exercises, ei, filtered_exercises,
                           filtered_data, temp_output_file>>
            /\ UNCHANGED fc_vars
       ELSE LET es == Limited(muscles[mi].exercises, exercises_per_muscle)
            IN  /\ exercises' = es
                /\ filtered_exercises' = << >>
                /\ IF es = << >>
                   THEN /\ filtered_data' = Enter(filtered_data, muscles[mi], << >>)
                        /\ temp_output_file' =
                              Dump(Enter(filtered_data, muscles[mi], << >>))
                        /\ mi' = mi + 1
                        /\ UNCHANGED <<m_pc, ei, output_file>>
                        /\ UNCHANGED fc_vars
                   ELSE /\ ei' = 1
                        /\ m_pc' = "check"
                        /\ Begin(ExerciseText(es[1]))
                        /\ UNCHANGED <<mi, filtered_data, temp_output_file,
                                       output_file>>
    /\ UNCHANGED <<muscles, exercises_per_muscle, checks>>
    /\ UNCHANGED <<pb_vars, c_vars, cr_vars>>

\* Lines 204-223, after a check has come back: the tuple is unpacked (a
\* TypeError when the check returned None; the except of line 239 logs it
\* and raises it again), the exercise kept or not, and the loops advance.
ExerciseStep ==
    /\ m_pc = "check"
    /\ pc = "idle"
    /\ IF ret.kind # "tuple"
       THEN /\ m_pc' = "raised"
            /\ UNCHANGED <<mi, ei, filtered_exercises, filtered_data,
                           temp_output_file, checks>>
            /\ UNCHANGED fc_vars
       ELSE LET kept == Keep(filtered_exercises, exercises[ei], ret.is_relevant)
            IN  /\ checks' = Append(checks, [exercise |-> exercises[ei],
                                             is_relevant |-> ret.is_relevant,
                                             failed |-> ret.error # ""])
                /\ filtered_exercises' = kept
                /\ IF ei < Len(exercises)
                   THEN /\ ei' = ei + 1
                        /\ Begin(ExerciseText(exercises[ei + 1]))
                        /\ UNCHANGED <<m_pc, mi, filtered_data, temp_output_file>>
                   ELSE /\ filtered_data' = Enter(filtered_data, muscles[mi], kept)
                        /\ temp_output_file' =
                              Dump(Enter(filtered_data, muscles[mi], kept))
                        /\ mi' = mi + 1
                        /\ m_pc' = "muscle"
                        /\ UNCHANGED ei
                        /\ UNCHANGED fc_vars
    /\ UNCHANGED <<muscles, exercises_per_muscle, exercises, output_file>>
    /\ UNCHANGED <<pb_vars, c_vars, cr_vars>>

----------------------------------------------------------------------------
(* The FactChecker as a whole. *)

\* Lines 27-43: the constructor.
FcInit ==
    /\ total_requests = 0
    /\ successful_requests = 0
    /\ failed_requests = 0
    /\ rate_limited_requests = 0
    /\ pc = "idle"
    /\ attempt = 0
    /\ text = << >>
    /\ ret = NoCall
    /\ observed = << >>
    /\ reply = EmptyDict
    /\ before = [total |-> 0, successful |-> 0, failed |-> 0, rate_limited |-> 0]
    /\ trace = << >>
    /\ paced = 0
    /\ request = NoRequest
    /\ PbIdle

\* No classify_text call has been made.
ClassifierIdle ==
    /\ c_text = << >>
    /\ c_response = [kind |-> "none", body |-> EmptyDict, msg |-> ""]
    /\ c_has_keyword = FALSE
    /\ c_out = EmptyDict
    /\ c_request = NoRequest
    /\ c_trace = << >>

\* No crawler has been constructed.
NoCrawler == max_items = 0 /\ CrawlerIdle

Init ==
    /\ max_retries \in 1..MaxRetriesBound
    /\ batch_size \in 1..MaxBatchSize
    /\ FcInit
    /\ ClassifierIdle
    /\ NoCrawler
    /\ MuscleIdle

Next ==
    \/ CallCheck
    \/ PacingSleep
    \/ Post
    \/ BackoffSleep
    \/ ProcessBatch
    \/ BatchStep

Spec == Init /\ [][Next]_vars

\* Every time.sleep returns and every requests.post returns or raises (it is
\* called with timeout=15, line 104): a call in progress takes its next step.
\* The calls of the sample script (src/test_fact_checker.py lines 27-28), one
\* after another, without process_batch.
NextCall ==
    \/ CallCheck
    \/ PacingSleep
    \/ Post
    \/ BackoffSleep

FairSpec ==
    /\ Init
    /\ [][NextCall]_vars
    /\ WF_vars(PacingSleep)
    /\ WF_vars(Post)
    /\ WF_vars(BackoffSleep)

\* The classifier's test script: the calls of test_classifier, one after another.
NextClassifier == ClassifyText

\* The script constructs a StretchingClassifier (lines 22-29) and no
\* FactChecker, whose variables stay as they are.
InitClassifier ==
    /\ max_retries = 1
    /\ batch_size = 1
    /\ FcInit
    /\ ClassifierIdle
    /\ NoCrawler
    /\ MuscleIdle

SpecClassifier == InitClassifier /\ [][NextClassifier]_vars

\* The crawler script: main() constructs a StretchingDataCrawler with
\* --limit N (lines 636-647) and runs crawl_all_muscles once; no FactChecker
\* and no classifier exist.
InitCrawler ==
    /\ max_retries = 1
    /\ batch_size = 1
    /\ FcInit
    /\ ClassifierIdle
    /\ max_items \in 1..MaxItems
    /\ CrawlerIdle
    /\ MuscleIdle

NextCrawler ==
    \/ CrawlFront
    \/ CrawlBack
    \/ WriteDataset

SpecCrawler == InitCrawler /\ [][NextCrawler]_vars

\* One run of process_muscle_data, which constructs its FactChecker at line 167.
InitMuscle ==
    /\ max_retries = MuscleMaxRetries
    /\ batch_size = MuscleBatchSize
    /\ FcInit
    /\ ClassifierIdle
    /\ NoCrawler
    /\ MuscleIdle

NextMuscle ==
    \/ ProcessMuscleData
    \/ MuscleStep
    \/ ExerciseStep
    \/ PacingSleep
    \/ Post
    \/ BackoffSleep

SpecMuscle == InitMuscle /\ [][NextMuscle]_vars

----------------------------------------------------------------------------
(* Properties of the FactChecker, under Spec. *)

\* No call of check_stretching_relevance_with_retry or process_batch is running.
Quiescent == pc = "idle" /\ pb_pc # "running"

\* A call of check_stretching_relevance_with_retry has just come back.
CallReturned == pc = "idle" /\ ret # NoCall

\* The elements of a sequence.
Range(sq) == { sq[n] : n \in 1..Len(sq) }

\* C1: whenever every call made so far has completed, successful_requests
\* + failed_requests = total_requests.
C1_CountersAddUp ==
    Quiescent => successful_requests + failed_requests = total_requests

\* C2: a completed call has returned a triple, and when none of its
\* attempts was answered 2xx the triple is (false, 0.0, non-empty error).
C2_AlwaysReturnsTriple ==
    CallReturned =>
       /\ ret.kind = "tuple"
       /\ "2xx" \notin Range(observed) =>
             ret.is_relevant = FALSE /\ ret.confidence = 0 /\ ret.error # ""

\* C3: process_batch never raises; it goes on after a text whose call had
\* no 2xx answer, with false for that text, and returns a verdict for every
\* text.
C3_BatchNeverAborts ==
    /\ pb_pc # "raised"
    /\ pb_pc = "returned" => Len(results) = Len(texts)
    /\ (pb_pc = "running" /\ CallReturned /\ "2xx" \notin Range(observed)) =>
          ENABLED BatchStep /\ ret.kind = "tuple" /\ ret.is_relevant = FALSE

\* The call in progress or just completed was answered 429 n times and then 2xx.
RateLimitedThenSuccess(n) ==
    /\ Len(observed) = n + 1
    /\ \A j \in 1..n : observed[j] = "429"
    /\ observed[n + 1] = "2xx"

\* C4: after k <= max_retries - 1 answers 429 and then a 2xx answer, the call
\* has returned that answer's supported and confidence with an empty error,
\* and rate_limited_requests has grown by exactly k.
C4_RateLimitedThenSuccess ==
    \A n \in 0..(max_retries - 1) :
       (pc = "idle" /\ RateLimitedThenSuccess(n)) =>
          /\ ret.kind = "tuple"
          /\ "supported" \in DOMAIN reply => ret.is_relevant = reply["supported"]
          /\ "confidence" \in DOMAIN reply => ret.confidence = reply["confidence"]
          /\ ret.error = ""
          /\ rate_limited_requests = before.rate_limited + n

\* C4's case: one 429, then a 2xx answer carrying both fields.
C4_Witness ==
    /\ pc = "idle"
    /\ RateLimitedThenSuccess(1)
    /\ DOMAIN reply = {"supported", "confidence"}
    /\ reply["supported"] = TRUE

\* Every one of the max_retries attempts of the call ended in a RequestException.
AllAttemptsFailed ==
    /\ Len(observed) = max_retries
    /\ \A j \in 1..max_retries : observed[j] \in ErrorMessages

\* C5: when all max_retries attempts ended in a transport error, the call
\* has returned (false, 0.0, message of the last error) and failed_requests
\* has grown by exactly 1.
C5_TransportErrorsExhaust ==
    (pc = "idle" /\ AllAttemptsFailed) =>
       /\ ret = Tuple3(FALSE, 0, observed[max_retries])
       /\ failed_requests = before.failed + 1

\* C5's case: two attempts, two different errors.
C5_Witness ==
    /\ pc = "idle"
    /\ max_retries = 2
    /\ observed = <<"500 Server Error", "Read timed out">>
    /\ failed_requests = before.failed + 1

\* C6: every process_batch call returns, and returns as many verdicts as it
\* was given texts, the i-th being the one obtained for texts[i], for every
\* batch_size.
C6_BatchReturnsVerdictsInOrder ==
    pb_pc \in {"returned", "raised"} =>
       /\ pb_pc = "returned"
       /\ Len(results) = Len(texts)
       /\ \A j \in 1..Len(texts) : results[j] = verdicts[j].is_relevant

----------------------------------------------------------------------------
(* Properties of the classifier, under SpecClassifier. *)

\* classify_text has been called and its request was answered 2xx with a
\* JSON object.
CallSucceeded == c_response.kind = "2xx"

\* The confidence and the flag the code reads from the answer.
c_confidence == Get(c_response.body, "confidence", 0)
c_supported == Get(c_response.body, "supported", FALSE)

\* C7: after a successful call the label is decided by has_keyword and by
\* whether the confidence is at least 0.95, 0.95 itself included.
C7_LabelByCell ==
    CallSucceeded =>
       c_out.classification =
          CASE c_has_keyword /\ c_confidence < 95 -> "keyword_based"
            [] c_has_keyword /\ c_confidence >= 95 -> "high_confidence_with_context"
            [] ~c_has_keyword /\ c_confidence >= 95 -> "api_based"
            [] ~c_has_keyword /\ c_confidence < 95 -> "context_based"

\* C7's case: a keyword and a confidence of exactly 0.95.
C7_Witness ==
    /\ CallSucceeded
    /\ c_has_keyword
    /\ c_confidence = 95
    /\ c_out.classification = "high_confidence_with_context"

\* Some keyword of the list occurs in t, letters compared without case.
ContainsKeyword(t) ==
    \E n \in 1..Len(stretching_keywords) :
       Contains(Lower(t), Lower(stretching_keywords[n]))

\* C8: after a successful call the verdict is true in the keyword_based
\* cell, the context-pattern check in the high_confidence_with_context cell,
\* the supported flag in the api_based cell, the general context analysis in
\* the context_based cell; a text containing a keyword, answered with
\* confidence 0.80, is relevant with label keyword_based.
C8_VerdictByCell ==
    CallSucceeded =>
       /\ c_out.is_stretching_related =
             CASE c_out.classification = "keyword_based" -> TRUE
               [] c_out.classification = "high_confidence_with_context" ->
                     CheckKeywordContext(c_text)
               [] c_out.classification = "api_based" -> c_supported
               [] c_out.classification = "context_based" ->
                     AnalyzeContext(c_text)
       /\ (ContainsKeyword(c_text) /\ c_confidence = 80) =>
             /\ c_out.is_stretching_related = TRUE
             /\ c_out.classification = "keyword_based"

\* C9 as stated: after a successful call on a text with a keyword, the
\* verdict is not-relevant only when supported is false, the confidence at
\* least 0.95 and no context pattern matches.
C9_OnlyConfidentDisagreementOverrides ==
    (CallSucceeded /\ c_has_keyword /\ ~c_out.is_stretching_related) =>
       /\ c_supported = FALSE
       /\ c_confidence >= 95
       /\ ~CheckKeywordContext(c_text)

\* C9 as amended: after a successful call on a text in which has_keyword
\* is true, the verdict is not-relevant only when the confidence is at
\* least 0.95 and no context pattern matches, whatever supported is.
C9_KeywordVerdictIgnoresSupported ==
    (CallSucceeded /\ c_has_keyword /\ ~c_out.is_stretching_related) =>
       /\ c_confidence >= 95
       /\ ~CheckKeywordContext(c_text)

\* C9's case: a keyword, supported = true with confidence 0.99, no context
\* pattern, and the verdict not-relevant.
C9_Witness ==
    /\ CallSucceeded
    /\ c_has_keyword
    /\ c_supported = TRUE
    /\ c_confidence = 99
    /\ c_out.is_stretching_related = FALSE

\* C10: has_keyword is true exactly when a keyword of the list occurs in
\* the text, letters compared without case.
C10_HasKeywordIgnoresCase ==
    c_response.kind # "none" => (c_has_keyword <=> ContainsKeyword(c_text))

----------------------------------------------------------------------------
(* Further properties of the classifier, under SpecClassifier. *)

\* The fields of a ClassificationOutcome, as the code names them.
OutcomeFields ==
    {"text", "is_stretching_related", "confidence", "classification",
     "api_supported", "found_keywords"}

\* C11: every dict classify_text returns, the one with label error
\* included, has all fields of an outcome, api_supported among them.
C11_OutcomeHasAllFields ==
    c_response.kind # "none" => OutcomeFields \subseteq DOMAIN c_out

\* The keywords of the list that occur in t, letters compared without case,
\* in the order of the list.
MatchingKeywords(t) ==
    LET lt == Lower(t)
        Matches(kw) == Contains(lt, Lower(kw))
    IN  SelectSeq(stretching_keywords, Matches)

\* C18: after a successful call found_keywords holds exactly the keywords of
\* the list that match the text, in the order of the list, and is empty
\* exactly when has_keyword is false.
C18_FoundKeywordsAreTheMatches ==
    CallSucceeded =>
       /\ c_out.found_keywords = MatchingKeywords(c_text)
       /\ c_out.found_keywords = << >> <=> ~c_has_keyword

----------------------------------------------------------------------------
(* Further properties of the FactChecker, under Spec. *)

\* The last element of a non-empty sequence.
Last(sq) == sq[Len(sq)]

\* The verdicts process_batch has collected so far, or has returned.
AllResults == IF pb_pc = "returned" THEN results ELSE results \o batch_results

\* The supported flag of the answer that ended the call, false when the
\* answer had none or the call ended in an error.
SupportedFlag ==
    IF observed # << >> /\ Last(observed) = "2xx"
    THEN Get(reply, "supported", FALSE)
    ELSE FALSE

\* What the decision table of the classifier gives for the text and the
\* answer of the call.
PolicyVerdict ==
    Decide(text, HasKeywordOf[text], Get(reply, "supported", FALSE),
           Get(reply, "confidence", 0)).is_stretching_related

\* C12 as stated: the boolean process_batch returns for a text is the
\* verdict of the decision table for that text and the verifier's answer.
C12_BatchAppliesDecisionPolicy ==
    (pb_pc = "returned" /\ texts # << >> /\ Last(observed) = "2xx") =>
       Last(results) = PolicyVerdict

\* C12 as amended: every boolean process_batch collects is the first
\* component of the tuple the call for that text returned, and that
\* component is the supported flag of the 2xx answer (false when absent)
\* or false after a transport error; the decision table takes no part.
C12_BatchResultIsSupportedFlag ==
    /\ (CallReturned /\ ret.kind = "tuple") => ret.is_relevant = SupportedFlag
    /\ Len(AllResults) <= Len(verdicts)
    /\ \A j \in 1..Len(AllResults) : AllResults[j] = verdicts[j].is_relevant

\* C12's case: a text with a keyword, a 2xx answer without confidence whose
\* flag is not true, a verdict of false where the decision table gives true.
C12_Witness ==
    /\ pb_pc = "returned"
    /\ texts # << >>
    /\ text = T_Stretching
    /\ Last(observed) = "2xx"
    /\ Last(results) = FALSE
    /\ PolicyVerdict = TRUE

\* C13: in every state, also in the middle of a request, successful_requests
\* + failed_requests <= total_requests.
C13_SettledNeverExceedTotal ==
    successful_requests + failed_requests <= total_requests

\* C13's case: a request is sent and not yet counted as settled.
C13_Witness ==
    /\ pc = "post"
    /\ successful_requests + failed_requests < total_requests

\* C14: a call adds exactly 1 to total_requests, whatever its outcome, and
\* process_batch over n texts has added exactly n when it ends.
C14_OneTotalPerCall ==
    /\ (pc # "idle" \/ CallReturned) => total_requests = before.total + 1
    /\ pb_pc \in {"returned", "raised"} =>
          total_requests = pb_before + Len(texts)

\* C15: failed_requests grows at most once per request, and only when the
\* attempt with index max_retries - 1 has raised.
C15_FailedOnlyAtLastAttempt ==
    /\ failed_requests \in {before.failed, before.failed + 1}
    /\ failed_requests = before.failed + 1 =>
          /\ pc = "idle"
          /\ attempt = max_retries - 1
          /\ Len(observed) = max_retries
          /\ Last(observed) \in ErrorMessages

\* C15's case: an earlier attempt failed without being counted, the last one
\* is counted.
C15_Witness ==
    /\ max_retries = 2
    /\ Len(observed) = 2
    /\ observed[1] \in ErrorMessages
    /\ failed_requests = before.failed + 1

\* How many elements of sq are x.
Count(sq, x) == Cardinality({ n \in 1..Len(sq) : sq[n] = x })

\* How many events of the given kind trace holds.
Events(kind) == Cardinality({ n \in 1..Len(trace) : trace[n].kind = kind })

\* C16: each 429, and nothing else, adds one to rate_limited_requests and is
\* followed by one backoff sleep; failed_requests grows only on an error.
C16_RateLimitDistinct ==
    /\ rate_limited_requests = before.rate_limited + Count(observed, "429")
    /\ Events("backoff") + (IF pc = "backoff" THEN 1 ELSE 0)
          = Count(observed, "429")
    /\ \A j \in 1..Len(trace) :
          trace[j].kind = "backoff" => j > 1 /\ trace[j - 1].kind = "post"
    /\ pc = "backoff" => Last(observed) = "429"
    /\ failed_requests > before.failed => Last(observed) \in ErrorMessages

\* C16's case: one call answered with a 429 and then with an error.
C16_Witness ==
    /\ pc = "idle"
    /\ Len(observed) = 2
    /\ observed[1] = "429"
    /\ observed[2] \in ErrorMessages
    /\ Events("backoff") = 1

\* C17: a 2xx answer without "supported", without "confidence" or without
\* both ends the call with the defaults false and 0.0, and counts as a
\* successful request.
C17_MissingFieldsDefault ==
    (pc = "idle" /\ observed # << >> /\ Last(observed) = "2xx") =>
       /\ ret.kind = "tuple"
       /\ ret.error = ""
       /\ "supported" \notin DOMAIN reply => ret.is_relevant = FALSE
       /\ "confidence" \notin DOMAIN reply => ret.confidence = 0
       /\ successful_requests = before.successful + 1
       /\ failed_requests = before.failed

\* C17's case: an answer with neither field.
C17_Witness ==
    /\ pc = "idle"
    /\ observed # << >>
    /\ Last(observed) = "2xx"
    /\ DOMAIN reply = {}
    /\ ret = Tuple3(FALSE, 0, "")

\* C19: every request is sent right after a pacing sleep of rate_limit_delay
\* plus 0.5 to 1.5 seconds, the first one and every retry.
C19_EveryAttemptPaced ==
    /\ \A j \in 1..Len(trace) :
          trace[j].kind = "post" => j > 1 /\ trace[j - 1].kind = "pacing"
    /\ pc = "post" =>
          /\ trace # << >>
          /\ Last(trace).kind = "pacing"
          /\ paced >= RateLimitDelay + 5
          /\ paced <= RateLimitDelay + 15

\* C19's case: a retry after a transport error, about to be sent.
C19_Witness ==
    /\ pc = "post"
    /\ Len(observed) = 1
    /\ observed[1] \in ErrorMessages
    /\ Events("pacing") = 2

\* How many requests the call had sent before the j-th event of trace.
PostsBefore(j) ==
    Cardinality({ n \in 1..(j - 1) : trace[n].kind = "post" })

\* C20: a 429 at attempt index a adds one to rate_limited_requests and is
\* followed by a sleep of (a + 1) * 5 seconds, longer at each later index;
\* the next attempt, when one is left, has index a + 1, and no call makes
\* more than max_retries attempts.
C20_BackoffEscalates ==
    /\ rate_limited_requests - before.rate_limited = Count(observed, "429")
    /\ \A j \in 1..Len(trace) :
          trace[j].kind = "backoff" => trace[j].secs = PostsBefore(j) * 5
    /\ \A j \in 1..Len(trace), l \in 1..Len(trace) :
          (j < l /\ trace[j].kind = "backoff" /\ trace[l].kind = "backoff") =>
             trace[j].secs < trace[l].secs
    /\ (pc = "sleep" /\ trace # << >>) =>
          /\ attempt = Len(observed)
          /\ attempt < max_retries
    /\ Len(observed) <= max_retries

\* C20's case: a second 429 in one call, followed by the longer sleep.
C20_Witness ==
    /\ Len(trace) = 6
    /\ trace[3] = Event("backoff", 5)
    /\ trace[6] = Event("backoff", 10)
    /\ rate_limited_requests = before.rate_limited + 2

\* The answer to the n-th request of the call in progress was a transport
\* error or a status raise_for_status rejects.
FailedAttempt(n) == n <= Len(observed) /\ observed[n] \in ErrorMessages

\* How many requests the call had sent up to and including the j-th event.
PostsUpTo(j) == Cardinality({ n \in 1..j : trace[n].kind = "post" })

\* C21: after a transport error at an attempt that is not the last, the next
\* attempt comes after the pacing sleep alone, with no backoff sleep and no
\* counter changed; after one at the last attempt the call returns the
\* failure triple with the message of that last error.
C21_TransportErrorRetry ==
    /\ \A j \in 1..(Len(trace) - 1) :
          (trace[j].kind = "post" /\ FailedAttempt(PostsUpTo(j))) =>
             trace[j + 1].kind = "pacing"
    /\ (pc # "idle" /\ observed # << >> /\ Last(observed) \in ErrorMessages) =>
          /\ pc \in {"sleep", "post"}
          /\ attempt = Len(observed)
          /\ total_requests = before.total + 1
          /\ successful_requests = before.successful
          /\ failed_requests = before.failed
          /\ rate_limited_requests
                = before.rate_limited + Count(observed, "429")
    /\ (pc = "idle" /\ observed # << >> /\ Last(observed) \in ErrorMessages) =>
          /\ Len(observed) = max_retries
          /\ ret = Tuple3(FALSE, 0, Last(observed))
          /\ failed_requests = before.failed + 1

\* C21's case: two attempts with different errors; the second request was
\* sent after a pacing sleep alone and its message is the one returned.
C21_Witness ==
    /\ pc = "idle"
    /\ observed = <<"500 Server Error", "Read timed out">>
    /\ ret.error = "Read timed out"
    /\ Len(trace) = 4
    /\ trace[3].kind = "pacing"

\* What bounds a call: it sends at most max_retries requests, one answer for
\* each, and a 2xx answer is the last one and ends the call.
AttemptsBounded ==
    /\ Events("post") <= max_retries
    /\ Events("post") = Len(observed)
    /\ \A n \in 1..Len(observed) :
          observed[n] = "2xx" => n = Len(observed) /\ pc = "idle"

\* C22: a call sends at most max_retries requests and, every sleep and every
\* request coming back, ends, whatever the answers are; a 2xx answer ends it
\* at once.
C22_BoundedAttemptsAndTermination ==
    /\ []AttemptsBounded
    /\ (pc # "idle") ~> (pc = "idle")

\* C22's case: a call that used all its attempts and has ended.
C22_Witness ==
    /\ pc = "idle"
    /\ max_retries = 2
    /\ Events("post") = 2
    /\ observed[1] = "429"

\* C23: while process_batch runs, the call in progress is the one for the
\* first text without a verdict, the calls for all texts before it have
\* come back, and calls started so far are one more than calls come back.
C23_OneTextAtATime ==
    pb_pc = "running" =>
       /\ Len(verdicts) = i + k - 1
       /\ i + k <= Len(texts)
       /\ text = texts[i + k]
       /\ total_requests - pb_before = Len(verdicts) + 1
       /\ \A j \in 1..Len(verdicts) : verdicts[j].kind # "no call"
       /\ Len(AllResults) = Len(verdicts)

\* C23's case: the request for the second text is about to be sent, the
\* first text, a different one, has its verdict.
C23_Witness ==
    /\ pb_pc = "running"
    /\ pc = "post"
    /\ Len(texts) = 2
    /\ texts[1] # texts[2]
    /\ text = texts[2]
    /\ Len(verdicts) = 1

\* C28: a call adds at most 1 to successful_requests + failed_requests,
\* never to both, and adds to successful_requests exactly when it returns a
\* tuple with an empty error string.
C28_SettledOncePerCall ==
    /\ successful_requests - before.successful \in {0, 1}
    /\ failed_requests - before.failed \in {0, 1}
    /\ (successful_requests - before.successful)
          + (failed_requests - before.failed) <= 1
    /\ successful_requests = before.successful + 1
          <=> (CallReturned /\ ret.kind = "tuple" /\ ret.error = "")

\* C28's case: the third call fails after the first succeeded and the second
\* ended on a 429.
C28_Witness ==
    /\ CallReturned
    /\ total_requests = 3
    /\ successful_requests = 1
    /\ failed_requests = 1
    /\ before.failed = 0
    /\ ret.error # ""

----------------------------------------------------------------------------
(* Requests, patterns and failures. *)

\* C24 as stated: the document of every request is the fixed context,
\* whatever the text is, and the text is sent in the claim only.
C24_DocumentIsFixedContext ==
    request # NoRequest =>
       /\ request.document = StretchingContext
       /\ ~Contains(request.document, text)
       /\ Contains(request.claim, text)

\* C24 as amended, for the FactChecker: the document of every request is
\* made of the fixed context and of the text of the call, the claim is the
\* same sentence for every text and does not hold the text.
C24_TextTravelsInDocument ==
    request # NoRequest =>
       /\ Contains(request.document, StretchingContext)
       /\ Contains(request.document, text)
       /\ request.claim = FixedClaim
       /\ ~Contains(request.claim, text)
       /\ \A t \in FcTexts : t # text => ~Contains(request.document, t)

\* C24's case: a request has been sent for a text.
C24_Witness ==
    /\ pc = "idle"
    /\ request # NoRequest
    /\ text = T_rom
    /\ Contains(request.document, T_rom)

\* The patterns that are in both lists.  A pattern is held as its two groups
\* of alternatives; the patterns the two lists share are written the same
\* in the source, character for character.
SharedPatterns == Range(positive_patterns) \cap Range(related_terms)

\* C25 as stated: no pattern is in both of the lists the classifier uses.
C25_PatternSetsDisjoint ==
    c_response.kind # "none" => SharedPatterns = {}

\* C25 as amended: the lists have six patterns each and share exactly two,
\* mobility/exercise and rehabilitation/program; a text either of them
\* matches passes both checks.
C25_TwoSharedPatterns ==
    /\ Len(positive_patterns) = 6
    /\ Len(related_terms) = 6
    /\ SharedPatterns = {positive_patterns[5], positive_patterns[6]}
    /\ SharedPatterns = {related_terms[2], related_terms[3]}
    /\ positive_patterns[5] # positive_patterns[6]
    /\ (c_response.kind # "none"
          /\ \E pattern \in SharedPatterns : Search(pattern, c_text)) =>
          CheckKeywordContextOf[c_text] /\ AnalyzeContextOf[c_text]

\* C25's case: a text classified that a shared pattern matches.
C25_Witness ==
    /\ c_response.kind = "2xx"
    /\ c_text = T_rehab
    /\ Search(related_terms[3], c_text)
    /\ Search(positive_patterns[6], c_text)

\* The external call of classify_text failed.
ClassifierCallFailed == c_response.kind \in {"429", "error", "not json"}

\* C26: classify_text always returns a dict, and after any failure of the
\* external call the dict has verdict false, confidence 0.0, label error
\* and the error string.
C26_FailureGivesErrorOutcome ==
    /\ c_response.kind # "none" => "classification" \in DOMAIN c_out
    /\ ClassifierCallFailed =>
          /\ c_out.is_stretching_related = FALSE
          /\ c_out.confidence = 0
          /\ c_out.classification = "error"
          /\ c_out.error = c_response.msg
          /\ c_out.error # ""
          /\ c_out.text = c_text

\* C26's case: a 429 answer for a text with a keyword.
C26_Witness ==
    /\ c_response.kind = "429"
    /\ c_has_keyword
    /\ c_out.classification = "error"

\* C29: one call of classify_text sends exactly one request and sleeps
\* neither before nor after it; a 429 or a transport error ends the call
\* with label error.
C29_SingleAttempt ==
    c_response.kind # "none" =>
       /\ c_trace = <<Event("post", 0)>>
       /\ c_request = [document |-> ClassifierContext, claim |-> c_text]
       /\ c_response.kind \in {"429", "error"} =>
             c_out.classification = "error"
       /\ c_out.classification = "error" <=> ClassifierCallFailed

\* C29's case: a transport error, after the only request.
C29_Witness ==
    /\ c_response.kind = "error"
    /\ c_response.msg = "Read timed out"
    /\ Len(c_trace) = 1
    /\ c_out.classification = "error"

----------------------------------------------------------------------------
(* The crawler, under SpecCrawler. *)

\* How many exercises the written dataset holds under muscles.
RECURSIVE SumLen(_, _)
SumLen(f, S) ==
    IF S = {} THEN 0
    ELSE LET m == CHOOSE x \in S : TRUE
         IN  Len(f[m]) + SumLen(f, S \ {m})

ExercisesWritten ==
    SumLen(structured_data.muscles, DOMAIN structured_data.muscles)

\* C30: the dataset written with max_items = N >= 1 holds at most N
\* exercises, and its total_items is the number of exercises under muscles.
C30_DatasetWithinLimit ==
    cr_pc = "done" =>
       /\ ExercisesWritten <= max_items
       /\ structured_data.total_items = ExercisesWritten

----------------------------------------------------------------------------
(* process_muscle_data, under SpecMuscle. *)

\* The elements of sq whose flag is true, from position j on, in order.
RECURSIVE Pick(_, _, _)
Pick(sq, flags, j) ==
    IF j > Len(sq) THEN << >>
    ELSE (IF flags[j] THEN <<sq[j]>> ELSE << >>) \o Pick(sq, flags, j + 1)

\* What the output must hold for the muscles from position n on, the checks
\* of their exercises being those after the first offset ones: for each
\* muscle the exercises whose check returned true, in input order, and no
\* entry for a muscle with none.
RECURSIVE ExpectedFrom(_, _)
ExpectedFrom(n, offset) ==
    IF n > Len(muscles) THEN << >>
    ELSE LET es == Limited(muscles[n].exercises, exercises_per_muscle)
             flags == [j \in 1..Len(es) |-> checks[offset + j].is_relevant]
             kept == Pick(es, flags, 1)
         IN  (IF kept # << >>
              THEN << [name |-> muscles[n].name, info |-> muscles[n].info,
                       exercises |-> kept] >>
              ELSE << >>)
             \o ExpectedFrom(n + 1, offset + Len(es))

\* The exercises of the processed muscles, in the order of the checks.
RECURSIVE ExercisesFrom(_)
ExercisesFrom(n) ==
    IF n > Len(muscles) THEN << >>
    ELSE Limited(muscles[n].exercises, exercises_per_muscle)
            \o ExercisesFrom(n + 1)

\* After a complete run every exercise was checked once, in input order, a
\* check that ended in an error gave false, and the output file holds what
\* the checks say.
FilteredAsChecked ==
    m_pc = "done" =>
       /\ Len(checks) = Len(ExercisesFrom(1))
       /\ \A j \in 1..Len(checks) :
             /\ checks[j].exercise = ExercisesFrom(1)[j]
             /\ checks[j].failed => ~checks[j].is_relevant
       /\ output_file = Dump(ExpectedFrom(1, 0))
       /\ \A n \in 1..Len(output_file.muscles) :
             output_file.muscles[n].exercises # << >>

\* C27: process_muscle_data keeps for each muscle exactly the exercises
\* whose check returned true, in input order, writes a muscle only when an
\* exercise of it was kept, and goes on after a check that used up its
\* retries, dropping that exercise.
C27_KeepsRelevantExercises ==
    /\ m_pc # "raised"
    /\ FilteredAsChecked

\* A complete run in which a check failed on transport errors, the exercise
\* was dropped, and a later exercise was kept.
DroppedAndWentOn ==
    /\ m_pc = "done"
    /\ Len(checks) >= 2
    /\ checks[1].failed
    /\ checks[Len(checks)].is_relevant
    /\ Len(output_file.muscles) = 1

====
